---- MODULE Spec2Model ----
(***************************************************************************)
(* The benchmark execution pipeline of coba/benchmarks/tasks.py:           *)
(*   Tasks.read -> Unfinished.filter -> GroupBySource/GroupByNone.filter   *)
(*              -> Transactions.filter                                     *)
(* Objects are modelled by identity: a source is a number, a pipe is a     *)
(* (source, filter) pair, a learner object is a tagged number.             *)
(***************************************************************************)
EXTENDS Integers, Sequences, FiniteSets, TLC

\* ------------------------------------------------------------------ bounds
MaxSims == 3
MaxLearners == 2
NumSources == 2
MaxTasks == 3
MaxFaults == 1
MaxRuns == 2

\* ------------------------------------------------------------------ helpers
Range(f) == {f[x] : x \in DOMAIN f}

SeqsUpTo(S, n) == UNION {[1..m -> S] : m \in 0..n}

RECURSIVE SumSeq(_)
SumSeq(s) == IF s = <<>> THEN 0 ELSE Head(s) + SumSeq(Tail(s))

Abs(x) == IF x < 0 THEN -x ELSE x

\* An insertion that also passes the elements of equal key: the sort it
\* builds is not stable.
RECURSIVE InsertByKey_strict(_, _, _)
InsertByKey_strict(i, done, keys) ==
    IF done = <<>> THEN <<i>>
    ELSE IF keys[done[Len(done)]] < keys[i] THEN Append(done, i)
    ELSE Append(InsertByKey_strict(i, SubSeq(done, 1, Len(done) - 1), keys),
                done[Len(done)])

\* sorted(xs, key=...) of python: a stable sort. keys[i] is the key of xs[i];
\* order is the sorted sequence of indices, built by insertion from the left,
\* so equal keys keep their input order.
RECURSIVE InsertByKey(_, _, _)
InsertByKey(i, done, keys) ==
    IF done = <<>> THEN <<i>>
    ELSE IF keys[done[Len(done)]] <= keys[i] THEN Append(done, i)
    ELSE Append(InsertByKey(i, SubSeq(done, 1, Len(done) - 1), keys),
                done[Len(done)])

RECURSIVE order(_, _)
order(keys, n) == IF n = 0 THEN <<>> ELSE InsertByKey(n, order(keys, n - 1), keys)

sorted(xs, keys) == LET o == order(keys, Len(xs)) IN [k \in DOMAIN xs |-> xs[o[k]]]

\* itertools.groupby: maximal runs of consecutive elements with equal keys.
RECURSIVE groupby(_, _)
groupby(xs, keys) ==
    IF xs = <<>> THEN <<>>
    ELSE LET n    == Len(xs)
             rest == groupby(SubSeq(xs, 1, n - 1), SubSeq(keys, 1, n - 1))
         IN  IF n > 1 /\ keys[n - 1] = keys[n]
             THEN [rest EXCEPT ![Len(rest)] = Append(@, xs[n])]
             ELSE Append(rest, <<xs[n]>>)

\* itertools.chain.from_iterable
RECURSIVE chain(_)
chain(gs) == IF gs = <<>> THEN <<>> ELSE Head(gs) \o chain(Tail(gs))

\* ------------------------------------------------------------------ objects
Sources == 1..NumSources

\* The filters a pipe can carry, by what they do to a loaded simulation.
Filters == {"identity", "take0"}

\* A caller-supplied simulation: a bare Source, or a Pipe.SourceFilters
\* holding _source and _filter.
BareSource(s) == [pipe |-> FALSE, _source |-> s, _filter |-> "none"]
SourceFilters(s, f) == [pipe |-> TRUE, _source |-> s, _filter |-> f]

\* The simulations a caller draws from: the sources themselves, and the first
\* source behind each filter.
SimChoices == {BareSource(s) : s \in Sources}
              \cup {SourceFilters(1, f) : f \in Filters}

\* A learner object: the j-th caller-supplied learner (obj = 0), or the deep
\* copy of it made for the k-th task (obj = k).
Learner(j) == [obj |-> 0, of |-> j]
deepcopy_shared(lrn, k) == lrn
deepcopy(lrn, k) == [obj |-> k, of |-> lrn.of]

LearnerObjs == [obj : 0..(MaxSims * MaxLearners), of : 1..MaxLearners]

\* hasattr(learner, "init"): the second learner has no init method.
has_init(lrn) == lrn.of # 2

\* ------------------------------------------------------------------ BenchmarkTask
\* BenchmarkTaskSimulation.source: a pipe is unwrapped to its source.
BenchmarkTaskSimulation_source(sim) ==
    IF sim._pipe.pipe THEN BareSource(sim._pipe._source) ELSE sim._pipe

\* BenchmarkTaskSimulation.filter
BenchmarkTaskSimulation_filter(sim) ==
    IF sim._pipe.pipe THEN sim._pipe._filter ELSE "identity"

\* BenchmarkTask.__init__: wraps the simulation in a new BenchmarkTaskSimulation
\* object (wrapper, an identity) and the learner in a new BenchmarkTaskLearner.
BenchmarkTask(src_id, sim_id, lrn_id, simulation, learner, wrapper) ==
    [src_id     |-> src_id,
     sim_id     |-> sim_id,
     lrn_id     |-> lrn_id,
     simulation |-> [wrapper |-> wrapper, _pipe |-> simulation],
     learner    |-> [_learner |-> learner]]

\* ------------------------------------------------------------------ Tasks
\* product with the loops exchanged: learners outer, simulations inner.
product_swapped(n, m) == [k \in 1..(n * m) |-> <<(k - 1) % n, (k - 1) \div n>>]

\* product(enumerate(simulations), enumerate(learners)): 0-based index pairs,
\* simulations outer, learners inner.
product(n, m) == [k \in 1..(n * m) |-> <<(k - 1) \div m, (k - 1) % m>>]

\* The simulation itself as the key of source_ids, pipe or not.
sim_source_kept(sim) == sim

\* sim._source if isinstance(sim, Pipe.SourceFilters) else sim
sim_source(sim) == IF sim.pipe THEN BareSource(sim._source) ELSE sim

\* source_ids = defaultdict(lambda x=count(): next(x)) after the lookups
\* keys[1..n]: a missing key gets the counter's next value.
RECURSIVE source_ids(_, _)
source_ids(keys, n) ==
    IF n = 0 THEN [map |-> <<>>, count |-> 0]
    ELSE LET d == source_ids(keys, n - 1)
         IN  IF keys[n] \in DOMAIN d.map THEN d
             ELSE [map |-> d.map @@ (keys[n] :> d.count), count |-> d.count + 1]

\* Tasks.read
Tasks_read(sims, lrns) ==
    LET pairs == product(Len(sims), Len(lrns))
        keys  == [k \in DOMAIN pairs |-> sim_source(sims[pairs[k][1] + 1])]
    IN  [k \in DOMAIN pairs |->
            BenchmarkTask(source_ids(keys, k).map[keys[k]],
                          pairs[k][1], pairs[k][2],
                          sims[pairs[k][1] + 1],
                          deepcopy(lrns[pairs[k][2] + 1], k), k)]

\* ------------------------------------------------------------------ Unfinished
\* Result.simulations.get_where(batch_count=...)
get_where(rows, batch_count) == {row \in rows : row.batch_count = batch_count}

no_batch_sim_ids(restored) ==
    {row.simulation_id : row \in get_where(restored.simulations, 0)}

\* A task counted as not complete when either test says so.
is_not_complete_either(restored, sim_id, learn_id) ==
    \/ <<sim_id, learn_id>> \notin restored.batches
    \/ sim_id \notin no_batch_sim_ids(restored)

is_not_complete(restored, sim_id, learn_id) ==
    /\ <<sim_id, learn_id>> \notin restored.batches
    /\ sim_id \notin no_batch_sim_ids(restored)

\* Unfinished.filter
Unfinished_filter(restored, ts) ==
    SelectSeq(ts, LAMBDA task : is_not_complete(restored, task.sim_id, task.lrn_id))

\* ------------------------------------------------------------------ grouping
\* GroupBySource.filter
GroupBySource_filter(ts) ==
    LET srt_key == [k \in DOMAIN ts |-> ts[k].src_id]
        srt     == sorted(ts, srt_key)
        grp_key == [k \in DOMAIN srt |-> srt[k].src_id]
    IN  groupby(srt, grp_key)

\* A grouping that yields the tasks but the last.
GroupByNone_short(ts) == [k \in 1..(Len(ts) - 1) |-> <<ts[k]>>]

\* GroupByNone.filter
GroupByNone_filter(ts) == [k \in DOMAIN ts |-> <<ts[k]>>]

\* ------------------------------------------------------------------ simulations
\* Probabilities and rewards are fixed-point numbers, Scale units to 1.
Scale == 100000

\* An Interaction: key, context (None, a tuple of len elements, or a scalar)
\* and the action set.
Interaction(key, context, actions) ==
    [key |-> key, context |-> context, actions |-> actions]

NoContext == [tag |-> "none", len |-> 0]
TupleContext(n) == [tag |-> "tuple", len |-> n]
ScalarContext == [tag |-> "scalar", len |-> 0]

\* What source.read() returns for source s: an unbatched Simulation with one
\* or two interactions, rewarded by key.
Loaded(s) ==
    [batched |-> FALSE,
     interactions |-> [k \in 1..(((s - 1) % 2) + 1) |->
                          Interaction(10 * s + k,
                                      IF k = 1 THEN TupleContext(3) ELSE NoContext,
                                      <<1, 2>>)],
     interaction_batches |-> <<>>,
     reward |-> "by_key"]

\* IdentityFilter.filter returns its item.
IdentityFilter_filter(item) == item

\* A Take larger than the source leaves nothing to evaluate.
Take_filter(item) ==
    [item EXCEPT !.interactions = <<>>, !.interaction_batches = <<>>]

\* sim.filter.filter(loaded_source)
Filter_filter(f, item) ==
    IF f = "identity" THEN IdentityFilter_filter(item) ELSE Take_filter(item)

\* batchify
batchify(simulation) ==
    IF simulation.batched THEN simulation.interaction_batches
    ELSE [k \in DOMAIN simulation.interactions |-> <<simulation.interactions[k]>>]

\* simulation.reward.observe: one reward per submitted (key, context, action)
\* triple, positionally aligned.
observe(reward, triples) ==
    [k \in DOMAIN triples |->
        IF reward = "by_key" THEN (triples[k][1] % 2) * Scale
        ELSE IF reward = "graded" THEN (2 * triples[k][1] * Scale) \div 10
        ELSE IF triples[k][3] = 1 THEN Scale ELSE 0]

\* ------------------------------------------------------------------ statistics
\* statistics.median_high in place of statistics.median: of an even number of
\* values the upper middle one.
int_median_high(data) ==
    LET n   == Len(data)
        srt == sorted(data, data)
    IN  srt[(n \div 2) + 1]

\* statistics.median of a non-empty list, then int(): the middle value, or
\* the mean of the two middle values truncated (the values are >= 0).
int_median(data) ==
    LET n   == Len(data)
        srt == sorted(data, data)
    IN  IF n % 2 = 1 THEN srt[(n + 1) \div 2]
        ELSE (srt[n \div 2] + srt[(n \div 2) + 1]) \div 2

\* Transactions._context_sizes
context_sizes(interactions) ==
    [k \in DOMAIN interactions |->
        LET context == interactions[k].context
        IN  IF context.tag = "none" THEN 0
            ELSE IF context.tag = "tuple" THEN context.len ELSE 1]

\* Transactions._action_counts
action_counts(interactions) ==
    (IF Len(interactions) = 0 THEN <<0>> ELSE <<>>)
    \o [k \in DOMAIN interactions |-> Len(interactions[k].actions)]

\* A mean cut off after the fifth decimal place.
round_mean_floor(rewards) == SumSeq(rewards) \div Len(rewards)

\* round(mean(rewards), 5) of a non-empty list; the rewards are multiples of
\* 1/Scale = 0.00001, so the mean is rounded to the nearest unit, ties to even.
round_mean(rewards) ==
    LET n == Len(rewards)
        t == SumSeq(rewards)
        q == t \div n
        r == t % n
    IN  IF 2 * r < n THEN q
        ELSE IF 2 * r > n THEN q + 1
        ELSE IF q % 2 = 0 THEN q ELSE q + 1

\* An exception object: its class and the call that raised it.
Exc(type, site) == [type |-> type, site |-> site]
NoExc == Exc("none", "none")

\* isinstance(e, Exception): everything raised here but KeyboardInterrupt.
IsException(e) == e.type # "KeyboardInterrupt"

\* The exceptions external code (a source, a filter, a learner, a reward) raises.
RaisedTypes == {"Exception", "KeyboardInterrupt"}

\* Statistics whose batch sizes hold the number of batches, not a size per batch.
batch_statistics_count(batches) ==
    IF \E k \in DOMAIN batches : batches[k] = <<>>
    THEN [exc |-> Exc("StatisticsError", "median"),
          context_sizes |-> <<>>, action_counts |-> <<>>, batch_sizes |-> <<>>]
    ELSE [exc |-> NoExc,
          context_sizes |-> [k \in DOMAIN batches |-> int_median(context_sizes(batches[k]))],
          action_counts |-> [k \in DOMAIN batches |-> int_median(action_counts(batches[k]))],
          batch_sizes   |-> <<Len(batches)>>]

\* Lines 202-204: the per-batch statistics of one learner's record;
\* statistics.median raises StatisticsError on a batch without interactions.
batch_statistics(batches) ==
    IF \E k \in DOMAIN batches : batches[k] = <<>>
    THEN [exc |-> Exc("StatisticsError", "median"),
          context_sizes |-> <<>>, action_counts |-> <<>>, batch_sizes |-> <<>>]
    ELSE [exc |-> NoExc,
          context_sizes |-> [k \in DOMAIN batches |-> int_median(context_sizes(batches[k]))],
          action_counts |-> [k \in DOMAIN batches |-> int_median(action_counts(batches[k]))],
          batch_sizes   |-> [k \in DOMAIN batches |-> Len(batches[k])]]

\* Transaction.batch
Transaction_batch(sim_id, lrn_id, C, A, N, reward) ==
    [sim_id |-> sim_id, lrn_id |-> lrn_id, C |-> C, A |-> A, N |-> N, reward |-> reward]

\* ------------------------------------------------------------------ learners
\* What the wrapped learner's predict can return for n actions: the first
\* action takes what the others (Part each) leave, and the last is off by skew.
Part == 20000
PredictVector(n, skew) ==
    [k \in 1..n |-> (IF k = 1 THEN Scale - (n - 1) * Part ELSE Part)
                    + (IF k = n THEN skew ELSE 0)]

\* The first learner's probabilities sum to 1, the others' to 1.00009; a
\* learner gone wrong is off by 0.1 (the first) or by 0.0001 (the others).
GoodSkews(lrn) == IF lrn.of = 1 THEN {0} ELSE {9}
BadSkews(lrn)  == IF lrn.of = 1 THEN {10000} ELSE {10}

\* A choose without the assertion.
valid_probabilities_unchecked(p) == TRUE

\* abs(sum(p) - 1) < .0001
Tolerance == 10
valid_probabilities(p) == Abs(SumSeq(p) - Scale) < Tolerance

\* zip(xs, ys)
zip(xs, ys) ==
    [k \in 1..(IF Len(xs) < Len(ys) THEN Len(xs) ELSE Len(ys)) |-> <<xs[k], ys[k]>>]

\* CobaRandom.choice(c, p): the positions it can return, those of weight > 0.
choice(c, p) == {k \in DOMAIN c : p[k] > 0}

\* ------------------------------------------------------------------ state
VARIABLES
    self_simulations,   \* Tasks._simulations
    self_learners,      \* Tasks._learners
    self_ignore_raise,  \* Transactions._ignore_raise
    self_restored,      \* Unfinished._restored: batches and simulations tables
    pc,                 \* the position of the pipeline
    tasks,              \* what Tasks.read yielded
    unfinished,         \* what Unfinished.filter yielded
    strategy,           \* the grouping filter that ran
    task_groups,        \* what the grouping filter yielded
    src_groups,         \* _process_group: the source groups still to visit
    sim_groups,         \* _process_group: the simulation groups still to visit
    loc,                \* _process_group: its locals
    pb,                 \* _process_batch: its locals
    lstate,             \* per learner object: the init and learn calls it saw
    out,                \* the transactions Transactions.filter yielded
    raised,             \* the exception that left Transactions.filter
    logged,             \* the exceptions given to Logger.log_exception
    calls,              \* the calls _process_batch made for the current batch
    reads,              \* the sources whose read() was called, in call order
    created,            \* the tasks whose simulation transform was applied
    attempts,           \* the (sim_id, lrn_id) whose evaluation was started
    skipped,            \* the sim_ids found to have no batches
    failed,             \* the (sim_id, lrn_id) whose evaluation raised
    thrown,             \* the exceptions raised inside _process_group, in order
    faults,             \* how many failures the environment injected
    runs,               \* how many runs were started
    history,            \* the (sim_id, lrn_id) recorded by earlier runs
    found_empty,        \* the sim_ids earlier runs found to have no batches
    disk,               \* DiskCache: the cache directory and its files
    cache_calls,        \* the calls made on the DiskCache, with their results
    logger,             \* UniversalLogger: its indentation and line state
    prints,             \* what the logger gave to its print_function
    script              \* the logger calls made, one per print

inputs == <<self_simulations, self_learners, self_ignore_raise>>
stages == <<tasks, unfinished, strategy, task_groups>>
engine == <<src_groups, sim_groups, loc, pb>>
traces == <<out, raised, logged, calls, reads, created, attempts, skipped, failed, thrown>>
execution == <<disk, cache_calls, logger, prints, script>>
vars == <<inputs, self_restored, pc, stages, engine, lstate, traces, faults, runs,
          history, found_empty, execution>>

NoTask == BenchmarkTask(0, 0, 0, BareSource(1), Learner(1), 0)
NoSimulation == [batched |-> FALSE, interactions |-> <<>>,
                 interaction_batches |-> <<>>, reward |-> "by_key"]

InitLoc ==
    [src_id |-> 0, source |-> BareSource(1), loaded_source |-> NoSimulation,
     sim_id |-> 0, sim |-> NoTask.simulation, simulation |-> NoSimulation,
     batches |-> <<>>, learner_ids |-> <<>>, learners |-> <<>>,
     i |-> 0, lrn_id |-> 0, learner |-> NoTask.learner,
     context_sizes |-> <<>>, action_counts |-> <<>>, batch_sizes |-> <<>>,
     mean_rewards |-> <<>>, b |-> 0]

InitPb ==
    [batch |-> <<>>, k |-> 0,
     keys |-> <<>>, contexts |-> <<>>, actions |-> <<>>, probs |-> <<>>,
     rewards |-> <<>>]

InitLstate == [o \in LearnerObjs |-> [inits |-> 0, learns |-> 0]]

\* An engine that has not started, with nothing yielded or called yet.
\* The cache and the logger of coba.execution before any call on them.
NoDisk == [exists |-> FALSE, files |-> {}]
NoLogger == [indent_cnt |-> 0, is_newline |-> TRUE]
IdleExecution ==
    /\ disk = NoDisk /\ cache_calls = <<>>
    /\ logger = NoLogger /\ prints = <<>> /\ script = <<>>

FreshEngine ==
    /\ unfinished = <<>> /\ strategy = "none" /\ task_groups = <<>>
    /\ src_groups = <<>> /\ sim_groups = <<>> /\ pb = InitPb
    /\ lstate = InitLstate
    /\ out = <<>> /\ raised = NoExc /\ logged = <<>> /\ calls = <<>>
    /\ reads = <<>> /\ created = <<>> /\ attempts = <<>> /\ skipped = <<>>
    /\ failed = <<>> /\ thrown = <<>>

\* A fresh process: nothing read, nothing run.
FreshRun ==
    /\ pc = "start"
    /\ tasks = <<>>
    /\ loc = InitLoc
    /\ FreshEngine

\* The zero-batch rows a restored result can hold before the first run.
ZeroBatchRows(Z) == {[simulation_id |-> z, batch_count |-> 0] : z \in Z}

\* The benchmarks a caller can set up: simulations, learners, ignore_raise.
Benchmark ==
    /\ self_simulations \in SeqsUpTo(SimChoices, MaxSims)
    /\ self_learners \in {[j \in 1..n |-> Learner(j)] : n \in 0..MaxLearners}
    /\ self_ignore_raise \in BOOLEAN

\* A first run: nothing restored.
Init ==
    /\ Benchmark
    /\ self_restored = [batches |-> {}, simulations |-> {}]
    /\ FreshRun
    /\ faults = 0
    /\ runs = 1
    /\ history = <<>>
    /\ found_empty = {}
    /\ IdleExecution

\* ------------------------------------------------------------------ pipeline
\* Tasks.read, consumed to its end.
Read ==
    /\ pc = "start"
    /\ tasks' = Tasks_read(self_simulations, self_learners)
    /\ pc' = "tasks"
    /\ UNCHANGED <<inputs, execution, self_restored, unfinished, strategy, task_groups,
                   engine, lstate, traces, faults, runs, history, found_empty>>

\* Unfinished.filter over the tasks.
Unfinished ==
    /\ pc = "tasks"
    /\ unfinished' = Unfinished_filter(self_restored, tasks)
    /\ pc' = "unfinished"
    /\ UNCHANGED <<inputs, execution, self_restored, tasks, strategy, task_groups,
                   engine, lstate, traces, faults, runs, history, found_empty>>

\* GroupBySource.filter over the unfinished tasks.
GroupBySource ==
    /\ pc = "unfinished"
    /\ task_groups' = GroupBySource_filter(unfinished)
    /\ strategy' = "GroupBySource"
    /\ pc' = "grouped"
    /\ UNCHANGED <<inputs, execution, self_restored, tasks, unfinished,
                   engine, lstate, traces, faults, runs, history, found_empty>>

\* GroupByNone.filter over the unfinished tasks.
GroupByNone ==
    /\ pc = "unfinished"
    /\ task_groups' = GroupByNone_filter(unfinished)
    /\ strategy' = "GroupByNone"
    /\ pc' = "grouped"
    /\ UNCHANGED <<inputs, execution, self_restored, tasks, unfinished,
                   engine, lstate, traces, faults, runs, history, found_empty>>

\* ------------------------------------------------------------------ Transactions
\* What a call into external code does: it returns, or, while the failure
\* budget lasts, raises.
Outcomes == {"ok"} \cup (IF faults < MaxFaults THEN RaisedTypes ELSE {})

Remove(xs, i) == [k \in 1..(Len(xs) - 1) |-> IF k < i THEN xs[k] ELSE xs[k + 1]]

\* The source groups of a task sequence that was not sorted first.
source_groups_unsorted(task_group) ==
    groupby(task_group, [k \in DOMAIN task_group |->
                <<task_group[k].src_id, BenchmarkTaskSimulation_source(task_group[k].simulation)>>])

\* Line 174: groupby(sorted(task_group, key=srt_src), key=grp_src)
source_groups(task_group) ==
    LET srt == sorted(task_group, [k \in DOMAIN task_group |-> task_group[k].src_id])
    IN  groupby(srt, [k \in DOMAIN srt |->
                        <<srt[k].src_id, BenchmarkTaskSimulation_source(srt[k].simulation)>>])

\* Line 180: groupby(sorted(tasks_by_src, key=srt_sim), key=grp_sim); the key
\* holds the task's BenchmarkTaskSimulation object itself.
simulation_groups(tasks_by_src) ==
    LET srt == sorted(tasks_by_src, [k \in DOMAIN tasks_by_src |-> tasks_by_src[k].sim_id])
    IN  groupby(srt, [k \in DOMAIN srt |-> <<srt[k].sim_id, srt[k].simulation>>])

\* Where the loops of _process_group go on once a simulation is finished.
Continue(sims_left, srcs_left) ==
    IF sims_left # <<>> THEN "simulation"
    ELSE IF srcs_left # <<>> THEN "source" ELSE "done"

\* A break in place of the continue: the simulations left of the source are
\* given up with the one that has no batches.
nothing_to_evaluate_break(sims_left, srcs_left) ==
    IF srcs_left # <<>> THEN "source" ELSE "done"

\* Lines 190-192: a simulation without batches is logged and the loop over the
\* source's simulations continues.
nothing_to_evaluate(sims_left, srcs_left) == Continue(sims_left, srcs_left)

\* Outer handlers that raise when told to ignore and ignore when told to raise.
outer_except_inverted(e, lg) ==
    IF IsException(e)
    THEN IF ~self_ignore_raise
         THEN [pc |-> "done", raised |-> raised, logged |-> Append(lg, e)]
         ELSE [pc |-> "raised", raised |-> e, logged |-> Append(lg, e)]
    ELSE [pc |-> "raised", raised |-> e, logged |-> lg]

\* Outer handlers with a bare except: a KeyboardInterrupt is handled like any
\* other exception.
outer_except_bare(e, lg) ==
    IF self_ignore_raise
    THEN [pc |-> "done", raised |-> raised, logged |-> Append(lg, e)]
    ELSE [pc |-> "raised", raised |-> e, logged |-> Append(lg, e)]

\* Lines 214-218: the outer handlers of _process_group.
outer_except(e, lg) ==
    IF IsException(e)
    THEN IF self_ignore_raise
         THEN [pc |-> "done", raised |-> raised, logged |-> Append(lg, e)]
         ELSE [pc |-> "raised", raised |-> e, logged |-> Append(lg, e)]
    ELSE [pc |-> "raised", raised |-> e, logged |-> lg]

\* Handlers that give up the rest of the run when a learner fails.
inner_except_abandon(l, e) ==
    LET deleted == [l EXCEPT !.learner_ids = Remove(@, l.i),
                             !.learners = Remove(@, l.i),
                             !.i = @ - 1]
    IN  IF IsException(e) /\ self_ignore_raise
        THEN [pc |-> "done",
              raised |-> raised, logged |-> Append(logged, e), loc |-> deleted,
              failed |-> Append(failed, <<l.sim_id, l.lrn_id>>)]
        ELSE [pc |-> "raised", raised |-> e,
              logged |-> IF IsException(e) THEN Append(Append(logged, e), e) ELSE logged,
              loc |-> deleted,
              failed |-> Append(failed, <<l.sim_id, l.lrn_id>>)]

\* Handlers without the finally clause: a learner that raised stays pending.
inner_except_keep(l, e) ==
    LET kept == [l EXCEPT !.i = @ - 1]
    IN  IF IsException(e) /\ self_ignore_raise
        THEN [pc |-> IF l.i > 1 THEN "learner" ELSE Continue(sim_groups, src_groups),
              raised |-> raised, logged |-> Append(logged, e), loc |-> kept,
              failed |-> Append(failed, <<l.sim_id, l.lrn_id>>)]
        ELSE LET o == outer_except(e, IF IsException(e) THEN Append(logged, e) ELSE logged)
             IN  [pc |-> o.pc, raised |-> o.raised, logged |-> o.logged, loc |-> kept,
                  failed |-> Append(failed, <<l.sim_id, l.lrn_id>>)]

\* Lines 207-212: the handlers around one learner's evaluation; the finally
\* clause removes the learner whatever happened.
inner_except(l, e) ==
    LET deleted == [l EXCEPT !.learner_ids = Remove(@, l.i),
                             !.learners = Remove(@, l.i),
                             !.i = @ - 1]
    IN  IF IsException(e) /\ self_ignore_raise
        THEN [pc |-> IF l.i > 1 THEN "learner" ELSE Continue(sim_groups, src_groups),
              raised |-> raised, logged |-> Append(logged, e), loc |-> deleted,
              failed |-> Append(failed, <<l.sim_id, l.lrn_id>>)]
        ELSE LET o == outer_except(e, IF IsException(e) THEN Append(logged, e) ELSE logged)
             IN  [pc |-> o.pc, raised |-> o.raised, logged |-> o.logged, loc |-> deleted,
                  failed |-> Append(failed, <<l.sim_id, l.lrn_id>>)]

\* Transactions.filter: the groups are chained into one task sequence and
\* handed to _process_group, which sorts and groups it by source.
Transactions ==
    /\ pc = "grouped"
    /\ src_groups' = source_groups(chain(task_groups))
    /\ pc' = IF src_groups' = <<>> THEN "done" ELSE "source"
    /\ UNCHANGED <<inputs, execution, self_restored, stages, sim_groups, loc, pb,
                   lstate, traces, faults, runs, history, found_empty>>

\* Lines 174-178: the next source group; source.read().
LoadSource ==
    /\ pc = "source"
    /\ LET tasks_by_src == Head(src_groups)
           src_id == tasks_by_src[1].src_id
           source == BenchmarkTaskSimulation_source(tasks_by_src[1].simulation)
       IN  \E o \in Outcomes :
             /\ src_groups' = Tail(src_groups)
             /\ reads' = Append(reads, source._source)
             /\ IF o = "ok"
                THEN /\ loc' = [loc EXCEPT !.src_id = src_id, !.source = source,
                                           !.loaded_source = Loaded(source._source)]
                     /\ sim_groups' = simulation_groups(tasks_by_src)
                     /\ pc' = "simulation"
                     /\ UNCHANGED <<raised, logged, thrown, faults>>
                ELSE LET x == outer_except(Exc(o, "read"), logged)
                     IN  /\ loc' = [loc EXCEPT !.src_id = src_id, !.source = source]
                         /\ thrown' = Append(thrown, Exc(o, "read"))
                         /\ sim_groups' = sim_groups
                         /\ pc' = x.pc /\ raised' = x.raised /\ logged' = x.logged
                         /\ faults' = faults + 1
    /\ UNCHANGED <<inputs, execution, self_restored, stages, pb, lstate,
                   out, calls, created, attempts, skipped, failed, runs, history, found_empty>>

\* Lines 180-192: the next simulation group; the transform and batchify.
CreateSimulation ==
    /\ pc = "simulation"
    /\ LET tasks_by_src_sim == Head(sim_groups)
           sim_id      == tasks_by_src_sim[1].sim_id
           sim         == tasks_by_src_sim[1].simulation
           learner_ids == [k \in DOMAIN tasks_by_src_sim |-> tasks_by_src_sim[k].lrn_id]
           learners    == [k \in DOMAIN tasks_by_src_sim |-> tasks_by_src_sim[k].learner]
           simulation  == Filter_filter(BenchmarkTaskSimulation_filter(sim), loc.loaded_source)
           batches     == batchify(simulation)
           entered     == [loc EXCEPT !.sim_id = sim_id, !.sim = sim,
                                      !.learner_ids = learner_ids, !.learners = learners]
       IN  \E o \in Outcomes :
             /\ sim_groups' = Tail(sim_groups)
             /\ created' = Append(created, <<sim_id, sim.wrapper>>)
             /\ IF o = "ok"
                THEN /\ loc' = [entered EXCEPT !.simulation = simulation, !.batches = batches,
                                               !.i = IF batches = <<>> THEN 0 ELSE Len(learners)]
                     /\ skipped' = IF batches = <<>> THEN Append(skipped, sim_id) ELSE skipped
                     /\ pc' = IF batches = <<>>
                              THEN nothing_to_evaluate(Tail(sim_groups), src_groups)
                              ELSE "learner"
                     /\ UNCHANGED <<raised, logged, thrown, faults>>
                ELSE LET x == outer_except(Exc(o, "filter"), logged)
                     IN  /\ loc' = entered
                         /\ thrown' = Append(thrown, Exc(o, "filter"))
                         /\ skipped' = skipped
                         /\ pc' = x.pc /\ raised' = x.raised /\ logged' = x.logged
                         /\ faults' = faults + 1
    /\ UNCHANGED <<inputs, execution, self_restored, stages, src_groups, pb, lstate,
                   out, calls, reads, attempts, failed, runs, history, found_empty>>

\* The locals of _process_batch as it starts on a batch.
start_batch(batch) == [InitPb EXCEPT !.batch = batch, !.k = 1]

\* Lines 194-204: the next pending learner, last collected first; init()
\* (a learner without init is left alone) and the per-batch statistics.
LearnerInit ==
    /\ pc = "learner"
    /\ LET lrn_id  == loc.learner_ids[loc.i]
           learner == loc.learners[loc.i]
           cur     == [loc EXCEPT !.lrn_id = lrn_id, !.learner = learner,
                                  !.context_sizes = <<>>, !.action_counts = <<>>,
                                  !.batch_sizes = <<>>, !.mean_rewards = <<>>, !.b = 1]
           st      == batch_statistics(loc.batches)
       IN  \E o \in Outcomes :
             /\ attempts' = Append(attempts, <<loc.sim_id, lrn_id>>)
             /\ calls' = <<>>
             /\ IF o = "ok" /\ st.exc = NoExc
                THEN /\ loc' = [cur EXCEPT !.context_sizes = st.context_sizes,
                                           !.action_counts = st.action_counts,
                                           !.batch_sizes = st.batch_sizes]
                     /\ pb' = start_batch(loc.batches[1])
                     /\ pc' = "choose"
                     /\ UNCHANGED <<raised, logged, failed, thrown>>
                ELSE LET e == IF o = "ok" THEN st.exc ELSE Exc(o, "init")
                         x == inner_except(cur, e)
                     IN  /\ loc' = x.loc /\ pb' = InitPb
                         /\ thrown' = Append(thrown, e)
                         /\ pc' = x.pc /\ raised' = x.raised /\ logged' = x.logged
                         /\ failed' = x.failed
             /\ lstate' = IF o = "ok" /\ has_init(learner._learner)
                          THEN [lstate EXCEPT ![learner._learner].inits = @ + 1]
                          ELSE lstate
             /\ faults' = IF o = "ok" THEN faults ELSE faults + 1
    /\ UNCHANGED <<inputs, execution, self_restored, stages, src_groups, sim_groups,
                   out, reads, created, skipped, runs, history, found_empty>>

\* A choose that rescales the sampled probability by the sum of all:
\* p / sum(p), computed as p - p * (sum(p) - 1) / sum(p).
BenchmarkTaskLearner_choose_renormalised(actions, p) ==
    LET c == zip(actions, p)
    IN  IF valid_probabilities(p)
        THEN [exc |-> NoExc,
              returns |-> {<<c[k][1], c[k][2] - (c[k][2] * (SumSeq(p) - Scale)) \div SumSeq(p)>> :
                              k \in choice(c, p)}]
        ELSE [exc |-> Exc("AssertionError", "choose"), returns |-> {}]

\* BenchmarkTaskLearner.choose, given what predict returned: the pairs it can
\* return, or the assertion error.
BenchmarkTaskLearner_choose(actions, p) ==
    LET c == zip(actions, p)
    IN  IF valid_probabilities(p)
        THEN [exc |-> NoExc, returns |-> {c[k] : k \in choice(c, p)}]
        ELSE [exc |-> Exc("AssertionError", "choose"), returns |-> {}]

\* Lines 227-234: learner.choose for the k-th interaction of the batch.
Choose ==
    /\ pc = "choose"
    /\ LET interaction == pb.batch[pb.k]
           learner     == loc.learner._learner
           call(ok, p, ap) ==
               [op |-> "choose", ok |-> ok, key |-> interaction.key,
                context |-> interaction.context, actions |-> interaction.actions,
                predicted |-> p, returned |-> ap]
       IN  \E o \in Outcomes :
           \E skew \in IF o = "ok"
                       THEN GoodSkews(learner)
                            \cup (IF faults < MaxFaults THEN BadSkews(learner) ELSE {})
                       ELSE {0} :
             LET p == PredictVector(Len(interaction.actions), skew)
                 r == BenchmarkTaskLearner_choose(interaction.actions, p)
                 e == IF o = "ok" THEN r.exc ELSE Exc(o, "predict")
             IN  IF e = NoExc
                 THEN /\ \E ap \in r.returns :
                           /\ pb' = [pb EXCEPT !.keys = Append(@, interaction.key),
                                               !.contexts = Append(@, interaction.context),
                                               !.probs = Append(@, ap[2]),
                                               !.actions = Append(@, ap[1]),
                                               !.k = @ + 1]
                           /\ calls' = Append(calls, call(TRUE, p, ap))
                      /\ pc' = IF pb.k < Len(pb.batch) THEN "choose" ELSE "observe"
                      /\ UNCHANGED <<loc, raised, logged, failed, thrown, faults>>
                 ELSE LET x == inner_except(loc, e)
                      IN  /\ loc' = x.loc /\ pb' = InitPb
                          /\ thrown' = Append(thrown, e)
                          /\ calls' = Append(calls, call(FALSE, IF o = "ok" THEN p ELSE <<>>, <<0, 0>>))
                          /\ pc' = x.pc /\ raised' = x.raised /\ logged' = x.logged
                          /\ failed' = x.failed
                          /\ faults' = faults + 1
    /\ UNCHANGED <<inputs, execution, self_restored, stages, src_groups, sim_groups, lstate,
                   out, reads, created, attempts, skipped, runs, history, found_empty>>

\* Line 236: reward.observe for the whole batch at once.
Observe ==
    /\ pc = "observe"
    /\ LET triples == [k \in DOMAIN pb.keys |-> <<pb.keys[k], pb.contexts[k], pb.actions[k]>>]
           rewards == observe(loc.simulation.reward, triples)
           call(ok, rs) == [op |-> "observe", ok |-> ok, triples |-> triples, returned |-> rs]
       IN  \E o \in Outcomes :
             IF o = "ok"
             THEN /\ pb' = [pb EXCEPT !.rewards = rewards, !.k = 1]
                  /\ calls' = Append(calls, call(TRUE, rewards))
                  /\ pc' = IF triples = <<>> THEN "return" ELSE "learn"
                  /\ UNCHANGED <<loc, raised, logged, failed, thrown, faults>>
             ELSE LET x == inner_except(loc, Exc(o, "observe"))
                  IN  /\ loc' = x.loc /\ pb' = InitPb
                      /\ thrown' = Append(thrown, Exc(o, "observe"))
                      /\ calls' = Append(calls, call(FALSE, <<>>))
                      /\ pc' = x.pc /\ raised' = x.raised /\ logged' = x.logged
                      /\ failed' = x.failed
                      /\ faults' = faults + 1
    /\ UNCHANGED <<inputs, execution, self_restored, stages, src_groups, sim_groups, lstate,
                   out, reads, created, attempts, skipped, runs, history, found_empty>>

\* The k-th element of zip(keys, contexts, actions, rewards, probs), taken from
\* the end of the lists.
learn_args_reversed(p, k) ==
    LET j == Len(p.rewards) + 1 - k
    IN  [key |-> p.keys[j], context |-> p.contexts[j], action |-> p.actions[j],
         reward |-> p.rewards[j], prob |-> p.probs[j]]

\* Line 238: the k-th element of zip(keys, contexts, actions, rewards, probs).
learn_args(p, k) ==
    [key |-> p.keys[k], context |-> p.contexts[k], action |-> p.actions[k],
     reward |-> p.rewards[k], prob |-> p.probs[k]]

\* Lines 238-239: learner.learn for the k-th chosen interaction.
Learn ==
    /\ pc = "learn"
    /\ LET a == learn_args(pb, pb.k)
           call(ok) == [op |-> "learn", ok |-> ok, key |-> a.key, context |-> a.context,
                        action |-> a.action, reward |-> a.reward, prob |-> a.prob]
           learner == loc.learner._learner
       IN  \E o \in Outcomes :
             IF o = "ok"
             THEN /\ pb' = [pb EXCEPT !.k = @ + 1]
                  /\ calls' = Append(calls, call(TRUE))
                  /\ lstate' = [lstate EXCEPT ![learner].learns = @ + 1]
                  /\ pc' = IF pb.k < Len(pb.rewards) THEN "learn" ELSE "return"
                  /\ UNCHANGED <<loc, raised, logged, failed, thrown, faults>>
             ELSE LET x == inner_except(loc, Exc(o, "learn"))
                  IN  /\ loc' = x.loc /\ pb' = InitPb
                      /\ thrown' = Append(thrown, Exc(o, "learn"))
                      /\ calls' = Append(calls, call(FALSE))
                      /\ lstate' = lstate
                      /\ pc' = x.pc /\ raised' = x.raised /\ logged' = x.logged
                      /\ failed' = x.failed
                      /\ faults' = faults + 1
    /\ UNCHANGED <<inputs, execution, self_restored, stages, src_groups, sim_groups,
                   out, reads, created, attempts, skipped, runs, history, found_empty>>

\* Lines 241 and 205-212: _process_batch returns round(mean(rewards), 5); the
\* next batch starts, or the record is yielded and the learner removed.
Return ==
    /\ pc = "return"
    /\ IF pb.rewards = <<>>
       THEN LET x == inner_except(loc, Exc("StatisticsError", "mean"))
            IN  /\ loc' = x.loc /\ pb' = InitPb
                /\ pc' = x.pc /\ raised' = x.raised /\ logged' = x.logged
                /\ failed' = x.failed
                /\ thrown' = Append(thrown, Exc("StatisticsError", "mean"))
                /\ UNCHANGED <<out, calls>>
       ELSE LET mean_rewards == Append(loc.mean_rewards, round_mean(pb.rewards))
            IN  IF loc.b < Len(loc.batches)
                THEN /\ loc' = [loc EXCEPT !.mean_rewards = mean_rewards, !.b = @ + 1]
                     /\ pb' = start_batch(loc.batches[loc.b + 1])
                     /\ calls' = <<>>
                     /\ pc' = "choose"
                     /\ UNCHANGED <<out, raised, logged, failed, thrown>>
                ELSE /\ out' = Append(out, Transaction_batch(loc.sim_id, loc.lrn_id,
                                              loc.context_sizes, loc.action_counts,
                                              loc.batch_sizes, mean_rewards))
                     /\ loc' = [loc EXCEPT !.mean_rewards = mean_rewards,
                                           !.learner_ids = Remove(@, loc.i),
                                           !.learners = Remove(@, loc.i),
                                           !.i = @ - 1]
                     /\ pb' = InitPb
                     /\ calls' = <<>>
                     /\ pc' = IF loc.i > 1 THEN "learner" ELSE Continue(sim_groups, src_groups)
                     /\ UNCHANGED <<raised, logged, failed, thrown>>
    /\ UNCHANGED <<inputs, execution, self_restored, stages, src_groups, sim_groups, lstate,
                   reads, created, attempts, skipped, faults, runs, history, found_empty>>

\* The run ends or is interrupted, the records it yielded (Transaction.batch
\* records, the only ones _process_group yields) are written to the result,
\* and the same benchmark is started again in a fresh process.
Rerun ==
    /\ pc \in {"source", "simulation", "learner", "choose", "observe", "learn",
               "return", "done", "raised"}
    /\ runs < MaxRuns
    /\ self_restored' = [self_restored EXCEPT
                            !.batches = @ \cup {<<out[k].sim_id, out[k].lrn_id>> : k \in DOMAIN out}]
    /\ history' = history \o [k \in DOMAIN out |-> <<out[k].sim_id, out[k].lrn_id>>]
    /\ found_empty' = found_empty \cup Range(skipped)
    /\ runs' = runs + 1
    /\ pc' = "start"
    /\ tasks' = <<>> /\ unfinished' = <<>> /\ strategy' = "none" /\ task_groups' = <<>>
    /\ src_groups' = <<>> /\ sim_groups' = <<>> /\ loc' = InitLoc /\ pb' = InitPb
    /\ lstate' = InitLstate
    /\ out' = <<>> /\ raised' = NoExc /\ logged' = <<>> /\ calls' = <<>>
    /\ reads' = <<>> /\ created' = <<>> /\ attempts' = <<>> /\ skipped' = <<>>
    /\ failed' = <<>> /\ thrown' = <<>>
    /\ UNCHANGED <<inputs, execution, faults>>

\* One run of the pipeline.
Next ==
    \/ Read
    \/ Unfinished
    \/ GroupBySource
    \/ GroupByNone
    \/ Transactions
    \/ LoadSource
    \/ CreateSimulation
    \/ LearnerInit
    \/ Choose
    \/ Observe
    \/ Learn
    \/ Return

Spec == Init /\ [][Next]_vars

\* ------------------------------------------------------------------ reruns
\* Runs that are interrupted and started again against the updated result.
\* The result of an earlier benchmark may already mark the first simulation
\* as having no batches; the environment does not fail in these runs.
InitRerun ==
    /\ Benchmark
    /\ self_ignore_raise
    /\ \E Z \in {{}, {0}} :
          self_restored = [batches |-> {}, simulations |-> ZeroBatchRows(Z)]
    /\ FreshRun
    /\ faults = MaxFaults
    /\ runs = 1
    /\ history = <<>>
    /\ found_empty = {}
    /\ IdleExecution

NextRerun == Next \/ Rerun

SpecRerun == InitRerun /\ [][NextRerun]_vars

\* ------------------------------------------------------------------ any tasks
\* Unfinished and the grouping filters over any task sequence and any restored
\* result: the tasks are drawn, in any order and with repetitions, from those
\* of a benchmark whose simulations share a source.
PoolSimulations == <<BareSource(1), BareSource(2), SourceFilters(1, "identity")>>
PoolLearners == <<Learner(1), Learner(2)>>
TaskPool == Range(Tasks_read(PoolSimulations, PoolLearners))

PoolPairs == {<<t.sim_id, t.lrn_id>> : t \in TaskPool}
PoolRows == {[simulation_id |-> t.sim_id, batch_count |-> c] : t \in TaskPool, c \in {0, 2}}
Stores == {[batches |-> B, simulations |-> R] :
              B \in {{}} \cup {{x} : x \in PoolPairs},
              R \in {{}} \cup {{x} : x \in PoolRows}}

\* The tasks of simulations 1, 2, 3 and learners 0, 1, against a result that
\* holds (2, 1) and marks simulation 3 as having no batches.
ExampleSimulations == <<BareSource(1), BareSource(1), BareSource(2), BareSource(2)>>
ExampleTasks ==
    SelectSeq(Tasks_read(ExampleSimulations, PoolLearners), LAMBDA t : t.sim_id >= 1)
ExampleRestored ==
    [batches |-> {<<2, 1>>},
     simulations |-> {[simulation_id |-> 3, batch_count |-> 0]}]

InitTasks ==
    /\ \/ /\ self_simulations = PoolSimulations
          /\ tasks \in SeqsUpTo(TaskPool, MaxTasks)
          /\ self_restored \in Stores
       \/ /\ self_simulations = ExampleSimulations
          /\ tasks = ExampleTasks
          /\ self_restored = ExampleRestored
    /\ self_learners = PoolLearners
    /\ self_ignore_raise = TRUE
    /\ pc = "tasks"
    /\ loc = InitLoc
    /\ FreshEngine
    /\ faults = 0
    /\ runs = 1
    /\ history = <<>>
    /\ found_empty = {}
    /\ IdleExecution

NextTasks ==
    \/ Unfinished
    \/ GroupBySource
    \/ GroupByNone

SpecTasks == InitTasks /\ [][NextTasks]_vars

\* ------------------------------------------------------------------ any batches
\* The learner loop of _process_group over any batched simulation: the batches
\* hold up to MaxBatch interactions with contexts and action sets of all kinds.
\* A simulation group of Tasks output holds one task, so one learner is pending.
MaxBatch == 2

EvalInteractions ==
    {Interaction(1, TupleContext(3), <<1, 2>>),
     Interaction(2, NoContext, <<1, 2, 3>>),
     Interaction(3, ScalarContext, <<1>>)}

EvalBatches == SeqsUpTo(EvalInteractions, MaxBatch)

EvalBatchLists ==
    {<<b>> : b \in EvalBatches}
    \cup {<<b, <<x>> >> : b \in EvalBatches, x \in EvalInteractions}

InitEval ==
    /\ self_simulations = <<>>
    /\ self_learners \in {<<Learner(j)>> : j \in 1..MaxLearners}
    /\ self_ignore_raise \in BOOLEAN
    /\ self_restored = [batches |-> {}, simulations |-> {}]
    /\ pc = "learner"
    /\ tasks = <<>>
    /\ \E bl \in EvalBatchLists, r \in {"by_key", "by_action"} :
          LET simulation == [batched |-> TRUE, interactions |-> <<>>,
                             interaction_batches |-> bl, reward |-> r]
          IN  loc = [InitLoc EXCEPT
                        !.simulation = simulation,
                        !.batches = batchify(simulation),
                        !.learner_ids = [j \in DOMAIN self_learners |-> j - 1],
                        !.learners = [j \in DOMAIN self_learners |->
                                         [_learner |-> deepcopy(self_learners[j], j)]],
                        !.i = Len(self_learners)]
    /\ FreshEngine
    /\ faults = 0
    /\ runs = 1
    /\ history = <<>>
    /\ found_empty = {}
    /\ IdleExecution

NextEval ==
    \/ LearnerInit
    \/ Choose
    \/ Observe
    \/ Learn
    \/ Return

SpecEval == InitEval /\ [][NextEval]_vars

\* ------------------------------------------------------------------ long batches
\* The learner loop over simulations with a batch of MeanBatch interactions,
\* alone or after a batch of one, under rewards of 0 and 1 (by key, by action)
\* and of 0.2, 0.4 and 0.6 (graded by key).
MeanBatch == 3

MeanBatches == [1..MeanBatch -> EvalInteractions]

MeanBatchLists ==
    {<<b>> : b \in MeanBatches}
    \cup {<< <<x>>, b>> : x \in EvalInteractions, b \in MeanBatches}

InitMean ==
    /\ self_simulations = <<>>
    /\ self_learners \in {<<Learner(j)>> : j \in 1..MaxLearners}
    /\ self_ignore_raise \in BOOLEAN
    /\ self_restored = [batches |-> {}, simulations |-> {}]
    /\ pc = "learner"
    /\ tasks = <<>>
    /\ \E bl \in MeanBatchLists, r \in {"by_key", "by_action", "graded"} :
          LET simulation == [batched |-> TRUE, interactions |-> <<>>,
                             interaction_batches |-> bl, reward |-> r]
          IN  loc = [InitLoc EXCEPT
                        !.simulation = simulation,
                        !.batches = batchify(simulation),
                        !.learner_ids = [j \in DOMAIN self_learners |-> j - 1],
                        !.learners = [j \in DOMAIN self_learners |->
                                         [_learner |-> deepcopy(self_learners[j], j)]],
                        !.i = Len(self_learners)]
    /\ FreshEngine
    /\ faults = 0
    /\ runs = 1
    /\ history = <<>>
    /\ found_empty = {}
    /\ IdleExecution

SpecMean == InitMean /\ [][NextEval]_vars

\* ------------------------------------------------------------------ any order
\* Transactions.filter over the groups of any task sequence: the tasks of the
\* pool in any order, a task possibly more than once (the same task object,
\* so with the same BenchmarkTaskSimulation and the same learner).
InitAny ==
    /\ self_simulations = PoolSimulations
    /\ self_learners = PoolLearners
    /\ self_ignore_raise \in BOOLEAN
    /\ self_restored = [batches |-> {}, simulations |-> {}]
    /\ tasks \in SeqsUpTo(TaskPool, MaxTasks)
    /\ pc = "tasks"
    /\ loc = InitLoc
    /\ FreshEngine
    /\ faults = 0
    /\ runs = 1
    /\ history = <<>>
    /\ found_empty = {}
    /\ IdleExecution

NextAny ==
    \/ Unfinished
    \/ GroupBySource
    \/ GroupByNone
    \/ Transactions
    \/ LoadSource
    \/ CreateSimulation
    \/ LearnerInit
    \/ Choose
    \/ Observe
    \/ Learn
    \/ Return

SpecAny == InitAny /\ [][NextAny]_vars

\* ------------------------------------------------------------------ the cache
\* coba.execution.DiskCache as the tests of test_execution.py use it: a
\* directory of gzip files, one per key. The engine is idle in these runs.
MaxCalls == 4

Keys == {"test.csv", "data.csv"}
Bytes == {"test", "more"}

gzip_compress(value) == <<"gz", value>>
gzip_decompress(data) == data[2]
cache_path(key) == <<key, ".gz">>

FileNotFound == "FileNotFoundError"

Called(op, key, value, result) ==
    [op |-> op, key |-> key, value |-> value, result |-> result, existed |-> disk.exists]

FileAt(path) == CHOOSE f \in disk.files : f.path = path
HasFile(path) == \E f \in disk.files : f.path = path
Unlink(path) == {f \in disk.files : f.path # path}

IdleLogger == logger = NoLogger /\ prints = <<>> /\ script = <<>>
IdleEngine ==
    /\ self_simulations = <<>> /\ self_learners = <<>> /\ self_ignore_raise = FALSE
    /\ self_restored = [batches |-> {}, simulations |-> {}]
    /\ pc = "idle" /\ tasks = <<>> /\ loc = InitLoc
    /\ FreshEngine
    /\ faults = 0 /\ runs = 1 /\ history = <<>> /\ found_empty = {}
EngineUnchanged ==
    UNCHANGED <<inputs, self_restored, pc, stages, engine, lstate, traces, faults,
                runs, history, found_empty>>

\* put that writes without making the directory first.
DiskCache_put_no_mkdir(key, value) ==
    /\ Len(cache_calls) < MaxCalls
    /\ IF disk.exists
       THEN /\ disk' = [disk EXCEPT !.files =
                           Unlink(cache_path(key))
                           \cup {[path |-> cache_path(key), data |-> gzip_compress(value)]}]
            /\ cache_calls' = Append(cache_calls, Called("put", key, value, "None"))
       ELSE /\ disk' = disk
            /\ cache_calls' = Append(cache_calls, Called("put", key, value, FileNotFound))
    /\ UNCHANGED <<logger, prints, script>>
    /\ EngineUnchanged

DiskCache_put(key, value) ==
    /\ Len(cache_calls) < MaxCalls
    /\ disk' = [exists |-> TRUE,
                files |-> Unlink(cache_path(key))
                          \cup {[path |-> cache_path(key), data |-> gzip_compress(value)]}]
    /\ cache_calls' = Append(cache_calls, Called("put", key, value, "None"))
    /\ UNCHANGED <<logger, prints, script>>
    /\ EngineUnchanged

DiskCache_get(key) ==
    /\ Len(cache_calls) < MaxCalls
    /\ cache_calls' = Append(cache_calls,
          Called("get", key, "",
                 IF HasFile(cache_path(key))
                 THEN gzip_decompress(FileAt(cache_path(key)).data)
                 ELSE FileNotFound))
    /\ UNCHANGED <<disk, logger, prints, script>>
    /\ EngineUnchanged

DiskCache_rmv(key) ==
    /\ Len(cache_calls) < MaxCalls
    /\ disk' = [disk EXCEPT !.files = Unlink(cache_path(key))]
    /\ cache_calls' = Append(cache_calls, Called("rmv", key, "", "None"))
    /\ UNCHANGED <<logger, prints, script>>
    /\ EngineUnchanged

DiskCache_contains(key) ==
    /\ Len(cache_calls) < MaxCalls
    /\ cache_calls' = Append(cache_calls,
          Called("in", key, "", IF HasFile(cache_path(key)) THEN "True" ELSE "False"))
    /\ UNCHANGED <<disk, logger, prints, script>>
    /\ EngineUnchanged

\* DiskCache(path) over a directory that may not exist yet; setUp has removed
\* the files of earlier tests.
InitCache ==
    /\ IdleEngine
    /\ disk \in {[exists |-> e, files |-> {}] : e \in BOOLEAN}
    /\ cache_calls = <<>>
    /\ IdleLogger

Put == \E key \in Keys, value \in Bytes : DiskCache_put(key, value)
Get == \E key \in Keys : DiskCache_get(key)
Rmv == \E key \in Keys : DiskCache_rmv(key)
Contains == \E key \in Keys : DiskCache_contains(key)

NextCache ==
    \/ Put
    \/ Get
    \/ Rmv
    \/ Contains

SpecCache == InitCache /\ [][NextCache]_vars

\* ------------------------------------------------------------------ the logger
\* coba.execution.UniversalLogger as the tests of test_execution.py use it:
\* log(message, end) prints one line and returns a scope that `with` may open.
\* A printed message is a timestamp of 20 characters, the indentation of the
\* current depth and the text, or the bare text when it continues a line.
MaxPrints == 7
MaxDepth == 2

Texts == {"d"}
Ends == {"None", "b"}

Bullets == <<"", "  * ", "    > ", "      - ", "        + ">>
Prefix(n) == IF n + 1 \in DOMAIN Bullets THEN Bullets[n + 1] ELSE "~"

Line(message) ==
    IF logger.is_newline
    THEN [stamp |-> TRUE, prefix |-> Prefix(logger.indent_cnt), text |-> message]
    ELSE [stamp |-> FALSE, prefix |-> "", text |-> message]

UniversalLogger_log(message, end) ==
    /\ prints' = Append(prints, [m |-> Line(message), e |-> end])
    /\ logger' = [logger EXCEPT !.is_newline = (end = "None")]

\* leaving a scope without giving back its indentation.
UniversalLogger_exit_keeps_indent ==
    /\ prints' = Append(prints, [m |-> Line("finished"), e |-> "None"])
    /\ logger' = [logger EXCEPT !.is_newline = TRUE]

UniversalLogger_exit ==
    /\ prints' = Append(prints, [m |-> Line("finished"), e |-> "None"])
    /\ logger' = [indent_cnt |-> logger.indent_cnt - 1, is_newline |-> TRUE]

\* logger.log(message, end)
Log ==
    /\ Len(prints) < MaxPrints
    /\ \E message \in Texts, end \in Ends : UniversalLogger_log(message, end)
    /\ script' = Append(script, "log")
    /\ UNCHANGED <<disk, cache_calls>>
    /\ EngineUnchanged

\* with logger.log(message, end): the message is logged, then the scope opens.
With ==
    /\ Len(prints) < MaxPrints
    /\ logger.indent_cnt < MaxDepth
    /\ \E message \in Texts, end \in Ends :
          /\ prints' = Append(prints, [m |-> Line(message), e |-> end])
          /\ logger' = [indent_cnt |-> logger.indent_cnt + 1, is_newline |-> (end = "None")]
    /\ script' = Append(script, "with")
    /\ UNCHANGED <<disk, cache_calls>>
    /\ EngineUnchanged

\* the end of the innermost open with block
Exit ==
    /\ Len(prints) < MaxPrints
    /\ logger.indent_cnt > 0
    /\ UniversalLogger_exit
    /\ script' = Append(script, "exit")
    /\ UNCHANGED <<disk, cache_calls>>
    /\ EngineUnchanged

InitLogger ==
    /\ IdleEngine
    /\ disk = NoDisk /\ cache_calls = <<>>
    /\ IdleLogger

NextLogger ==
    \/ Log
    \/ With
    \/ Exit

SpecLogger == InitLogger /\ [][NextLogger]_vars

\* ------------------------------------------------------------------ claims
Pair(t) == <<t.sim_id, t.lrn_id>>
Pairs(ts) == {Pair(ts[k]) : k \in DOMAIN ts}
NoDuplicates(xs) == \A a, b \in DOMAIN xs : a # b => xs[a] # xs[b]
Count(xs, x) == Cardinality({k \in DOMAIN xs : xs[k] = x})

\* The underlying source object of a task's simulation.
Underlying(t) == t.simulation._pipe._source

\* C1: Tasks.read emits exactly |S| x |L| tasks, one per (simulation, learner)
\* pair, simulations outer and learners inner; sim_id and lrn_id are the
\* 0-based positions in S and L, so no two tasks share (sim_id, lrn_id).
C1_CrossProduct ==
    pc # "start" =>
        LET S == self_simulations
            L == self_learners
        IN  /\ Len(tasks) = Len(S) * Len(L)
            /\ \A s \in DOMAIN S, l \in DOMAIN L :
                  LET t == tasks[(s - 1) * Len(L) + l]
                  IN  /\ t.sim_id = s - 1
                      /\ t.lrn_id = l - 1
                      /\ t.simulation._pipe = S[s]
                      /\ t.learner._learner.of = L[l].of
            /\ \A a, b \in DOMAIN tasks : a # b => Pair(tasks[a]) # Pair(tasks[b])

C1_Witness ==
    /\ pc = "tasks"
    /\ Len(self_simulations) >= 2
    /\ Len(self_learners) >= 2
    /\ Len(tasks) >= 4

\* C2: two tasks of one Tasks.read have the same src_id exactly when their
\* simulations wrap the same underlying source, and a task's src_id is the
\* number of distinct underlying sources that occur in the simulation sequence
\* before the first occurrence of its own.
C2_SourceIds ==
    pc # "start" =>
        LET S == self_simulations
            First(src) == CHOOSE j \in DOMAIN S :
                              /\ S[j]._source = src
                              /\ \A i \in 1..(j - 1) : S[i]._source # src
        IN  \A a \in DOMAIN tasks :
              /\ \A b \in DOMAIN tasks :
                    (tasks[a].src_id = tasks[b].src_id) <=> (Underlying(tasks[a]) = Underlying(tasks[b]))
              /\ tasks[a].src_id =
                    Cardinality({S[i]._source : i \in 1..(First(Underlying(tasks[a])) - 1)})

C2_Witness ==
    /\ pc = "tasks"
    /\ \E a, b, c \in DOMAIN tasks :
          /\ tasks[a].simulation._pipe.pipe
          /\ ~tasks[b].simulation._pipe.pipe
          /\ tasks[a].sim_id # tasks[b].sim_id
          /\ tasks[a].src_id = tasks[b].src_id
          /\ tasks[c].src_id = 1
          /\ tasks[c].sim_id < tasks[a].sim_id

\* C3: Unfinished.filter yields a task exactly when its (sim_id, lrn_id) is not
\* in the restored batches and its sim_id is not a simulation restored with
\* batch_count = 0; the survivors keep their input order, each yielded once.
\* Of the tasks of simulations 1, 2, 3 and learners 0, 1, against a result
\* holding (2, 1) and zero-batch simulation 3, (1,0), (1,1), (2,0) survive.
C3_UnfinishedKeeps ==
    pc # "tasks" =>
        LET zero == {r.simulation_id : r \in {x \in self_restored.simulations : x.batch_count = 0}}
            keep == {k \in DOMAIN tasks :
                        /\ Pair(tasks[k]) \notin self_restored.batches
                        /\ tasks[k].sim_id \notin zero}
            nth(j) == CHOOSE k \in keep : Cardinality({i \in keep : i <= k}) = j
        IN  /\ Len(unfinished) = Cardinality(keep)
            /\ \A j \in DOMAIN unfinished : unfinished[j] = tasks[nth(j)]
            /\ (tasks = ExampleTasks /\ self_restored = ExampleRestored)
                  => [j \in DOMAIN unfinished |-> Pair(unfinished[j])]
                        = << <<1, 0>>, <<1, 1>>, <<2, 0>> >>

C3_Witness ==
    /\ pc = "unfinished"
    /\ tasks = ExampleTasks
    /\ self_restored = ExampleRestored
    /\ Len(tasks) = 6
    /\ Len(unfinished) = 3

\* C4: reruns are idempotent. When a run is interrupted after any prefix of its
\* records and the result is updated with them, the next run's Unfinished
\* yields the tasks without a record (whose simulation is not marked
\* zero-batch) and no others, no recorded pair is evaluated or recorded again,
\* and once every pair has a record Unfinished yields nothing.
C4_RerunIdempotent ==
    LET recorded == Range(history)
        zero     == {r.simulation_id : r \in {x \in self_restored.simulations : x.batch_count = 0}}
    IN  /\ NoDuplicates(history \o [k \in DOMAIN out |-> <<out[k].sim_id, out[k].lrn_id>>])
        /\ \A k \in DOMAIN attempts : attempts[k] \notin recorded
        /\ pc \notin {"start", "tasks"} =>
              /\ Pairs(unfinished) = {p \in Pairs(tasks) : p \notin recorded /\ p[1] \notin zero}
              /\ NoDuplicates(unfinished)
              /\ (Pairs(tasks) \subseteq recorded => unfinished = <<>>)

C4_Witness ==
    /\ runs = 2
    /\ pc = "done"
    /\ history # <<>>
    /\ out # <<>>
    /\ Len(history) + Len(out) = Len(tasks)

\* C5: GroupBySource.filter and GroupByNone.filter keep the tasks: over all
\* emitted groups every input task occurs as often as in the input, whatever
\* the input order, and no emitted group is empty.
RECURSIVE CountInGroups(_, _)
CountInGroups(gs, x) ==
    IF gs = <<>> THEN 0 ELSE Count(Head(gs), x) + CountInGroups(Tail(gs), x)

C5_GroupsKeepTasks ==
    pc = "grouped" =>
        /\ \A g \in DOMAIN task_groups : task_groups[g] # <<>>
        /\ \A x \in Range(unfinished) \cup UNION {Range(task_groups[g]) : g \in DOMAIN task_groups} :
              CountInGroups(task_groups, x) = Count(unfinished, x)

C5_Witness ==
    /\ pc = "grouped"
    /\ strategy = "GroupBySource"
    /\ Len(unfinished) = 3
    /\ unfinished[1] = unfinished[3]
    /\ unfinished[2].src_id < unfinished[1].src_id
    /\ Len(task_groups) = 2

\* C6: GroupBySource.filter emits one group per distinct src_id of its input,
\* in ascending src_id order; a group holds exactly the input tasks of its
\* src_id, in their input order.
C6_GroupBySource ==
    (pc = "grouped" /\ strategy = "GroupBySource") =>
        /\ Len(task_groups) = Cardinality({unfinished[k].src_id : k \in DOMAIN unfinished})
        /\ \A g \in DOMAIN task_groups :
              task_groups[g] = SelectSeq(unfinished, LAMBDA t : t.src_id = task_groups[g][1].src_id)
        /\ \A g, h \in DOMAIN task_groups :
              g < h => task_groups[g][1].src_id < task_groups[h][1].src_id

C6_Witness ==
    /\ pc = "grouped"
    /\ strategy = "GroupBySource"
    /\ Len(unfinished) = 3
    /\ unfinished[1].src_id = 0
    /\ unfinished[2].src_id = 1
    /\ unfinished[3].src_id = 0
    /\ unfinished[1].sim_id > unfinished[3].sim_id
    /\ task_groups[1] = <<unfinished[1], unfinished[3]>>

\* The pairs of the records yielded so far, in order.
Recorded == [k \in DOMAIN out |-> <<out[k].sim_id, out[k].lrn_id>>]

\* A failure of source.read() or of a simulation's transform was handled by
\* the outer handlers of _process_group.
OuterFailure == \E k \in DOMAIN logged : logged[k].site \in {"read", "filter"}

\* C7: in one Transactions.filter call over the output of Tasks, through
\* either grouping, source.read() is called at most once per underlying
\* source, before any simulation of that source is built, and once for every
\* source of the input when no failure aborts the run.
C7_ReadOncePerSource ==
    /\ NoDuplicates(reads)
    /\ Range(reads) \subseteq {Underlying(unfinished[k]) : k \in DOMAIN unfinished}
    /\ \A k \in DOMAIN created :
          \E t \in Range(unfinished) :
              /\ t.simulation.wrapper = created[k][2]
              /\ Underlying(t) \in Range(reads)
    /\ (pc = "done" /\ ~OuterFailure) =>
          Range(reads) = {Underlying(unfinished[k]) : k \in DOMAIN unfinished}

C7_Witness ==
    /\ pc = "done"
    /\ strategy = "GroupByNone"
    /\ Len(self_simulations) = 3
    /\ self_simulations[1]._source = self_simulations[3]._source
    /\ self_simulations[1]._source # self_simulations[2]._source
    /\ self_simulations[3].pipe
    /\ Len(self_learners) = 2
    /\ Len(reads) = 2
    /\ Len(out) = 6

\* C8: _process_batch is a two-phase loop. For a batch of N interactions it
\* calls choose N times in batch order, then reward.observe once with the N
\* (key, context, chosen action) triples, then learn N times in the same
\* order, the i-th learn carrying the i-th key, context, chosen action,
\* returned reward and chosen probability.
C8_TwoPhaseLoop ==
    pc \in {"choose", "observe", "learn", "return"} =>
        LET N  == Len(pb.batch)
            cs == SelectSeq(calls, LAMBDA c : c.op = "choose")
            os == SelectSeq(calls, LAMBDA c : c.op = "observe")
            ls == SelectSeq(calls, LAMBDA c : c.op = "learn")
        IN  /\ calls = cs \o os \o ls
            /\ Len(cs) <= N /\ Len(os) <= 1 /\ Len(ls) <= N
            /\ os # <<>> => Len(cs) = N
            /\ ls # <<>> => os # <<>>
            /\ pc = "return" => (Len(cs) = N /\ Len(os) = 1 /\ Len(ls) = N)
            /\ \A j \in DOMAIN cs :
                  /\ cs[j].key = pb.batch[j].key
                  /\ cs[j].context = pb.batch[j].context
                  /\ cs[j].actions = pb.batch[j].actions
            /\ os # <<>> =>
                  /\ Len(os[1].triples) = N
                  /\ Len(os[1].returned) = N
                  /\ \A j \in 1..N :
                        os[1].triples[j] = <<cs[j].key, cs[j].context, cs[j].returned[1]>>
            /\ \A j \in DOMAIN ls :
                  /\ ls[j].key = cs[j].key
                  /\ ls[j].context = cs[j].context
                  /\ ls[j].action = cs[j].returned[1]
                  /\ ls[j].prob = cs[j].returned[2]
                  /\ ls[j].reward = os[1].returned[j]

C8_Witness ==
    /\ pc = "return"
    /\ Len(pb.batch) = 2
    /\ Len(calls) = 5
    /\ calls[1].returned[1] # calls[2].returned[1]
    /\ calls[3].returned[1] # calls[3].returned[2]
    /\ calls[5].op = "learn"
    /\ Len(loc.batches) = 2

\* C9: with ignore_raise = True an exception a learner raises in init() or in
\* its batch loop does not leave Transactions.filter and gives that
\* (sim_id, lrn_id) no record, and every other task of the input (the other
\* learners of the simulation, the later simulations and sources) whose
\* simulation has batches still gets its record.
C9_FailureIsolation ==
    self_ignore_raise =>
        /\ ~(raised # NoExc /\ IsException(raised))
        /\ \A k \in DOMAIN failed : failed[k] \notin Range(Recorded)
        /\ (pc = "done" /\ ~OuterFailure) =>
              \A k \in DOMAIN unfinished :
                  LET p == Pair(unfinished[k])
                  IN  (p \notin Range(failed) /\ p[1] \notin Range(skipped))
                         => Count(Recorded, p) = 1

C9_Witness ==
    /\ self_ignore_raise
    /\ pc = "done"
    /\ Len(failed) = 1
    /\ logged = <<Exc("AssertionError", "choose")>>
    /\ Len(reads) = 2
    /\ \E a, b \in DOMAIN out :
          /\ out[a].sim_id = failed[1][1]
          /\ out[a].lrn_id > failed[1][2]
          /\ out[b].sim_id > failed[1][1]
    /\ Len(out) = Len(unfinished) - 1

\* C10: with ignore_raise = False the first exception (cancellations aside)
\* raised by source.read(), a transform or a learner leaves Transactions.filter
\* as that same exception; the records yielded before it stay and none follows.
C10_Propagation ==
    [][ /\ (~self_ignore_raise /\ logged' # logged) =>
              /\ logged = <<>>
              /\ pc' = "raised"
              /\ raised' = logged'[1]
              /\ IsException(raised')
              /\ \A k \in DOMAIN logged' : logged'[k] = raised'
              /\ out' = out
        /\ pc = "raised" => (pc' = "raised" /\ out' = out) ]_vars

C10_Witness ==
    /\ ~self_ignore_raise
    /\ pc = "raised"
    /\ raised = Exc("Exception", "learn")
    /\ out # <<>>
    /\ Len(out) + 1 < Len(unfinished)

\* C11: a KeyboardInterrupt raised by source.read(), a transform, init,
\* choose, reward.observe or learn leaves Transactions.filter as it is, for
\* either value of ignore_raise: it is not logged as handled, and no learner,
\* simulation or source is processed after it.
C11_Cancellation ==
    [][ /\ (thrown' # thrown /\ ~IsException(thrown'[Len(thrown')])) =>
              /\ pc' = "raised"
              /\ raised' = thrown'[Len(thrown')]
              /\ logged' = logged
              /\ out' = out
        /\ (pc = "raised" /\ ~IsException(raised)) =>
              UNCHANGED <<out, reads, created, attempts, thrown, raised>> ]_vars

C11_Witness ==
    /\ self_ignore_raise
    /\ pc = "raised"
    /\ raised = Exc("KeyboardInterrupt", "observe")
    /\ thrown = <<raised>>
    /\ logged = <<>>
    /\ out # <<>>
    /\ Len(attempts) < Len(unfinished)

\* Whether the simulation of task t, once loaded and transformed, has batches.
HasBatches(t) ==
    batchify(Filter_filter(BenchmarkTaskSimulation_filter(t.simulation),
                           Loaded(Underlying(t)))) # <<>>

\* C12: with ignore_raise = True an exception of source.read() or of a
\* simulation's transform abandons only the group it occurred in: once the
\* filter is exhausted, the tasks of every other source whose simulation has
\* batches and whose learner did not fail have their record.
C12_OnlyGroupAbandoned ==
    (self_ignore_raise /\ pc = "done" /\ OuterFailure) =>
        \A k \in DOMAIN unfinished :
            LET t == unfinished[k]
            IN  (t.src_id # loc.src_id /\ HasBatches(t) /\ Pair(t) \notin Range(failed))
                   => Pair(t) \in Range(Recorded)

\* C13: a simulation whose batch sequence is empty gets no record for any of
\* its learners, none of them sees init, choose or learn, nothing is raised
\* or logged as an exception for it under either ignore_raise setting, and
\* the simulations and sources after it still get their records.
C13_EmptyBatches ==
    /\ \A k \in DOMAIN skipped :
          /\ \A j \in DOMAIN out : out[j].sim_id # skipped[k]
          /\ \A j \in DOMAIN attempts : attempts[j][1] # skipped[k]
          /\ \A j \in DOMAIN unfinished :
                unfinished[j].sim_id = skipped[k]
                   => lstate[unfinished[j].learner._learner] = [inits |-> 0, learns |-> 0]
    /\ faults = 0 => (thrown = <<>> /\ raised = NoExc /\ logged = <<>>)
    /\ (pc = "done" /\ thrown = <<>>) =>
          \A j \in DOMAIN unfinished :
              IF HasBatches(unfinished[j])
              THEN Count(Recorded, Pair(unfinished[j])) = 1
              ELSE unfinished[j].sim_id \in Range(skipped)

C13_Witness ==
    /\ ~self_ignore_raise
    /\ pc = "done"
    /\ self_simulations = <<SourceFilters(1, "take0"), BareSource(1), BareSource(2)>>
    /\ Len(self_learners) = 2
    /\ Range(skipped) = {0}
    /\ Recorded = << <<1, 0>>, <<1, 1>>, <<2, 0>>, <<2, 1>> >>
    /\ thrown = <<>>

\* C14: a simulation a run found to have no batches is recorded as such in
\* the output, so once the result is updated from the output the result marks
\* it with batch_count = 0, Unfinished drops its tasks in every later run, and
\* it is not built or found empty again.
C14_ZeroBatchRecorded ==
    /\ found_empty \subseteq no_batch_sim_ids(self_restored)
    /\ pc \notin {"start", "tasks"} =>
          \A k \in DOMAIN unfinished : unfinished[k].sim_id \notin found_empty
    /\ \A k \in DOMAIN created : created[k][1] \notin found_empty
    /\ \A k \in DOMAIN skipped : skipped[k] \notin found_empty

\* C15: Transactions.filter keeps the order of the task groups it is given:
\* of two groups, the tasks of the earlier one are evaluated, and recorded,
\* before any task of the later one.
C15_GroupOrderKept ==
    \A g, h \in DOMAIN task_groups :
        g < h =>
            \A a \in Range(task_groups[g]), b \in Range(task_groups[h]) :
                /\ \A i, j \in DOMAIN attempts :
                      (attempts[i] = Pair(a) /\ attempts[j] = Pair(b)) => i < j
                /\ \A i, j \in DOMAIN out :
                      (Recorded[i] = Pair(a) /\ Recorded[j] = Pair(b)) => i < j

\* C16: the learners pending on one simulation are attempted in the reverse
\* of the order their tasks were collected in; over the output of Tasks the
\* attempts and the records of one sim_id come in descending lrn_id order.
C16_ReverseLearnerOrder ==
    /\ \A i, j \in DOMAIN attempts :
          (i < j /\ attempts[i][1] = attempts[j][1]) => attempts[i][2] > attempts[j][2]
    /\ \A i, j \in DOMAIN out :
          (i < j /\ out[i].sim_id = out[j].sim_id) => out[i].lrn_id > out[j].lrn_id

\* The learner object a task's adapter holds.
Own(t) == t.learner._learner

\* C17: every task of Tasks.read holds a learner object of its own, different
\* from the caller's and from every other task's: the init and learn calls of
\* one task's evaluation change the state of that object only, so an object
\* has seen calls only if its own task was attempted, a recorded task's object
\* has seen exactly the learn calls of its own batches, and the caller's
\* learners have seen none.
C17_LearnerCopies ==
    /\ \A a, b \in DOMAIN tasks : a # b => Own(tasks[a]) # Own(tasks[b])
    /\ \A a \in DOMAIN tasks : Own(tasks[a]) \notin Range(self_learners)
    /\ \A j \in DOMAIN self_learners :
          lstate[self_learners[j]] = [inits |-> 0, learns |-> 0]
    /\ \A a \in DOMAIN tasks :
          /\ lstate[Own(tasks[a])].inits <= 1
          /\ Pair(tasks[a]) \notin Range(attempts)
                => lstate[Own(tasks[a])] = [inits |-> 0, learns |-> 0]
          /\ \A k \in DOMAIN out :
                Recorded[k] = Pair(tasks[a])
                   => lstate[Own(tasks[a])].learns = SumSeq(out[k].N)

C17_Witness ==
    /\ pc = "done"
    /\ Len(self_simulations) = 3
    /\ Len(self_learners) = 2
    /\ Len(out) = 6
    /\ \E a, b \in DOMAIN tasks :
          /\ a # b
          /\ Own(tasks[a]).of = Own(tasks[b]).of
          /\ lstate[Own(tasks[a])].learns = 1
          /\ lstate[Own(tasks[b])].learns = 2
          /\ lstate[Own(tasks[a])].inits = 1

\* The batches of task t's simulation, once loaded and transformed.
BatchesOf(t) ==
    batchify(Filter_filter(BenchmarkTaskSimulation_filter(t.simulation),
                           Loaded(Underlying(t))))

\* C18: over tasks with pairwise distinct (sim_id, lrn_id) the records hold
\* every pair at most once and only pairs of input tasks; when the filter is
\* exhausted without a source or transform failure, every task whose
\* simulation has batches and whose evaluation raised nothing has exactly one
\* record; the four statistic sequences of a record are as long as the
\* simulation's batch sequence.
C18_OneRecordPerPair ==
    /\ NoDuplicates(Recorded)
    /\ Range(Recorded) \subseteq Pairs(unfinished)
    /\ \A k \in DOMAIN out :
          \A j \in DOMAIN unfinished :
              Pair(unfinished[j]) = Recorded[k] =>
                  LET n == Len(BatchesOf(unfinished[j]))
                  IN  /\ n >= 1
                      /\ Len(out[k].C) = n /\ Len(out[k].A) = n
                      /\ Len(out[k].N) = n /\ Len(out[k].reward) = n
    /\ (pc = "done" /\ ~OuterFailure) =>
          \A j \in DOMAIN unfinished :
              (BatchesOf(unfinished[j]) # <<>> /\ Pair(unfinished[j]) \notin Range(failed))
                  <=> Count(Recorded, Pair(unfinished[j])) = 1

C18_Witness ==
    /\ pc = "done"
    /\ Len(unfinished) = 6
    /\ Len(failed) = 1
    /\ skipped # <<>>
    /\ Len(out) = 3
    /\ \E a, b \in DOMAIN out : Len(out[a].N) = 1 /\ Len(out[b].N) = 2

\* C19: choose raises an AssertionError when the probabilities predict
\* returned are further than 0.0001 from summing to 1, e.g. [0.5, 0.6]: it
\* returns no action, a learner it failed for gets no record, and the
\* probabilities are never rescaled: a choose that returns, returns a
\* probability predict gave.
C19_ProbabilityAssertion ==
    /\ BenchmarkTaskLearner_choose(<<1, 2>>, <<Scale \div 2, (6 * Scale) \div 10>>)
          = [exc |-> Exc("AssertionError", "choose"), returns |-> {}]
    /\ \A k \in DOMAIN calls :
          (calls[k].op = "choose" /\ calls[k].predicted # <<>>) =>
              LET p == calls[k].predicted
                  d == Abs(SumSeq(p) - Scale)
              IN  /\ 10000 * d > Scale =>
                        /\ ~calls[k].ok
                        /\ calls[k].returned = <<0, 0>>
                        /\ k = Len(calls)
                        /\ \E i \in DOMAIN thrown : thrown[i] = Exc("AssertionError", "choose")
                        /\ failed # <<>>
                        /\ failed[Len(failed)] \notin Range(Recorded)
                  /\ 10000 * d < Scale =>
                        /\ calls[k].ok
                        /\ \E j \in DOMAIN p :
                              calls[k].returned = <<calls[k].actions[j], p[j]>>
    /\ \A i \in DOMAIN thrown :
          thrown[i] = Exc("AssertionError", "choose") =>
              (failed # <<>> /\ \A f \in Range(failed) : f \notin Range(Recorded))

C19_Witness ==
    /\ self_ignore_raise
    /\ pc = "done"
    /\ thrown = <<Exc("AssertionError", "choose")>>
    /\ Len(calls) = 1
    /\ 10000 * Abs(SumSeq(calls[1].predicted) - Scale) > Scale
    /\ Len(failed) = 1
    /\ out = <<>>

\* The k-th smallest value of a non-empty sequence of numbers.
KthSmallest(s, k) ==
    CHOOSE v \in Range(s) :
        /\ Cardinality({i \in DOMAIN s : s[i] < v}) < k
        /\ Cardinality({i \in DOMAIN s : s[i] <= v}) >= k

\* The median of a non-empty sequence of naturals, truncated to an integer.
TruncatedMedian(s) ==
    LET n == Len(s)
    IN  IF n % 2 = 1 THEN KthSmallest(s, (n + 1) \div 2)
        ELSE (KthSmallest(s, n \div 2) + KthSmallest(s, (n \div 2) + 1)) \div 2

\* The size of a context: 0 for None, the element count of a tuple, else 1.
ContextSize(c) == IF c.tag = "none" THEN 0 ELSE IF c.tag = "tuple" THEN c.len ELSE 1

\* C20: context_size[i] of a record is the median, truncated to an integer,
\* of the context sizes of the interactions of batch i (0 for None, the
\* element count for a tuple, 1 otherwise); contexts (1,2,3) and None give
\* the median of [3, 0], which is 1.
C20_ContextSize ==
    /\ \A k \in DOMAIN out :
          /\ Len(out[k].C) = Len(loc.batches)
          /\ \A i \in DOMAIN loc.batches :
                out[k].C[i] = TruncatedMedian([j \in DOMAIN loc.batches[i] |->
                                                 ContextSize(loc.batches[i][j].context)])
    /\ \A k \in DOMAIN out :
          \A i \in DOMAIN loc.batches :
              [j \in DOMAIN loc.batches[i] |-> loc.batches[i][j].context]
                    = <<TupleContext(3), NoContext>>
                 => out[k].C[i] = 1

C20_Witness ==
    /\ pc = "done"
    /\ Len(out) = 1
    /\ Len(loc.batches) = 2
    /\ [j \in DOMAIN loc.batches[1] |-> loc.batches[1][j].context] = <<TupleContext(3), NoContext>>
    /\ loc.batches[2][1].context = ScalarContext
    /\ out[1].C = <<1, 1>>

\* C21: action_count[i] of a record is the median, truncated to an integer,
\* of the sizes of the action sets of the interactions of batch i, and 0 for
\* a batch without interactions; a learner evaluated without any failure of
\* the learner, the reward or the environment gets its record also when a
\* batch of the simulation has no interactions.
C21_ActionCount ==
    /\ \A k \in DOMAIN out :
          /\ Len(out[k].A) = Len(loc.batches)
          /\ \A i \in DOMAIN loc.batches :
                out[k].A[i] =
                    IF loc.batches[i] = <<>> THEN 0
                    ELSE TruncatedMedian([j \in DOMAIN loc.batches[i] |->
                                             Len(loc.batches[i][j].actions)])
    /\ (pc \in {"done", "raised"} /\ faults = 0) => Len(out) = 1

\* C22: mean_reward[i] of a record is the mean of the rewards reward.observe
\* returned for batch i, rounded to 5 decimal places (the nearest multiple of
\* 0.00001), and batch_size[i] is the number of interactions of batch i;
\* rewards [0.2, 0.4, 0.6] give 0.4 and rewards of mean 1/3 give 0.33333.
C22_MeanReward ==
    [][ (pc = "return" /\ pb.rewards # <<>>) =>
            LET n == Len(pb.rewards)
                t == SumSeq(pb.rewards)
                m == loc'.mean_rewards[loc.b]
            IN  /\ Len(loc'.mean_rewards) = loc.b
                /\ SubSeq(loc'.mean_rewards, 1, loc.b - 1) = loc.mean_rewards
                /\ 2 * Abs(n * m - t) <= n
                /\ pb.rewards = <<(2 * Scale) \div 10, (4 * Scale) \div 10, (6 * Scale) \div 10>>
                      => m = (4 * Scale) \div 10
                /\ (n = 3 /\ t = Scale) => m = 33333
                /\ n = Len(loc.batches[loc.b])
                /\ loc.batch_sizes = [i \in DOMAIN loc.batches |-> Len(loc.batches[i])]
                /\ out' # out =>
                      /\ out' = Append(out, out'[Len(out')])
                      /\ out'[Len(out')].reward = loc'.mean_rewards
                      /\ out'[Len(out')].N = loc.batch_sizes
                      /\ Len(loc'.mean_rewards) = Len(loc.batches) ]_vars

C22_Witness ==
    /\ pc = "done"
    /\ Len(out) = 1
    /\ out[1].N = <<1, 3>>
    /\ out[1].reward \in {<<Scale, 33333>>, <<0, 66667>>}

\* C23: DiskCache is a key-value store. After any calls, `key in cache` is True
\* exactly when the last put or rmv of that key was a put (False for a key
\* never put and after rmv), get returns the bytes of the latest put of a key
\* that is in the cache, and put succeeds and leaves the key in the cache also
\* when the cache directory did not exist.
Changes(i, key) ==
    {j \in 1..(i - 1) : cache_calls[j].key = key /\ cache_calls[j].op \in {"put", "rmv"}}
LastChange(i, key) ==
    CHOOSE j \in Changes(i, key) : \A k \in Changes(i, key) : k <= j
LastWasPut(i, key) ==
    Changes(i, key) # {} /\ cache_calls[LastChange(i, key)].op = "put"
C23_KeyValueStore ==
    /\ \A i \in DOMAIN cache_calls :
          LET c == cache_calls[i]
          IN  /\ c.op = "in" => (c.result = "True" <=> LastWasPut(i, c.key))
              /\ c.op = "in" => c.result \in {"True", "False"}
              /\ (c.op = "get" /\ LastWasPut(i, c.key)) =>
                    c.result = cache_calls[LastChange(i, c.key)].value
              /\ c.op = "put" => c.result = "None"
    /\ \A key \in Keys :
          HasFile(cache_path(key)) <=> LastWasPut(Len(cache_calls) + 1, key)
    /\ (\E i \in DOMAIN cache_calls : cache_calls[i].op = "put") => disk.exists
C23_Witness ==
    /\ Len(cache_calls) = 4
    /\ cache_calls[1].op = "put" /\ ~cache_calls[1].existed
    /\ cache_calls[1].key = "test.csv" /\ cache_calls[1].value = "test"
    /\ cache_calls[2] = [op |-> "get", key |-> "test.csv", value |-> "",
                         result |-> "test", existed |-> TRUE]
    /\ cache_calls[3].op = "rmv" /\ cache_calls[3].key = "test.csv"
    /\ cache_calls[4].op = "in" /\ cache_calls[4].key = "test.csv"
    /\ cache_calls[4].result = "False"

\* C24: UniversalLogger indents by nesting depth. A message logged inside n
\* open with-scopes is printed with the prefix of depth n (none at 0, '  * ' at
\* 1, '    > ' at 2) after its timestamp; leaving a scope returns to the depth
\* of the enclosing one, so after the outermost scope closes messages have no
\* indentation; a message logged right after a print with a non-default end is
\* printed as the bare text.
Opened(i) == Cardinality({j \in 1..(i - 1) : script[j] = "with"})
Closed(i) == Cardinality({j \in 1..(i - 1) : script[j] = "exit"})
Depth(i) == Opened(i) - Closed(i)
Continues(i) == i > 1 /\ prints[i - 1].e # "None"
C24_Indentation ==
    /\ Len(script) = Len(prints)
    /\ \A i \in DOMAIN prints :
          script[i] \in {"log", "with"} =>
             IF Continues(i)
             THEN prints[i].m = [stamp |-> FALSE, prefix |-> "", text |-> prints[i].m.text]
             ELSE /\ prints[i].m.stamp
                  /\ Depth(i) = 0 => prints[i].m.prefix = ""
                  /\ Depth(i) = 1 => prints[i].m.prefix = "  * "
                  /\ Depth(i) = 2 => prints[i].m.prefix = "    > "
                  /\ Depth(i) > 0 => prints[i].m.prefix # ""
C24_Witness ==
    /\ script = <<"with", "log", "with", "log", "exit", "exit", "log">>
    /\ prints[1].e = "b"
    /\ prints[2].m.stamp = FALSE
    /\ prints[3].m.prefix = "  * "
    /\ prints[4].m.prefix = "    > "
    /\ prints[7].m = [stamp |-> TRUE, prefix |-> "", text |-> "d"]

\* C25: within one Transactions.filter call the sources are visited in
\* ascending src_id order and the simulations of a source in ascending sim_id
\* order, whatever the order of the tasks: along the attempts and along the
\* records the src_id never decreases, and within one source the sim_id never
\* decreases.
SrcOf(sim_id) ==
    (CHOOSE t \in Range(tasks) : t.sim_id = sim_id).src_id
Ascending(pairs) ==
    \A i, j \in DOMAIN pairs :
        i < j =>
            /\ SrcOf(pairs[i][1]) <= SrcOf(pairs[j][1])
            /\ SrcOf(pairs[i][1]) = SrcOf(pairs[j][1]) => pairs[i][1] <= pairs[j][1]
C25_AscendingVisits ==
    /\ Ascending(attempts)
    /\ Ascending(Recorded)
    /\ Ascending(created)
C25_Witness ==
    /\ pc = "done"
    /\ [k \in DOMAIN tasks |-> tasks[k].sim_id] = <<2, 1, 0>>
    /\ [k \in DOMAIN tasks |-> tasks[k].src_id] = <<0, 1, 0>>
    /\ [k \in DOMAIN out |-> out[k].sim_id] = <<0, 2, 1>>

\* C26: the learners collected for a simulation with batches are attempted one
\* by one, each removed from learner_ids and learners right after its attempt,
\* whether it was recorded, raised a suppressed exception or a propagating one.
\* The two lists always have the same length; the learner attempted is the
\* last pending one, so none is attempted again; when the learner loop ends
\* normally both lists are empty, and once the filter is exhausted without a
\* source or transform failure every collected learner was attempted once.
InAttempt == pc \in {"choose", "observe", "learn", "return"}
C26_PendingLists ==
    [][ /\ Len(loc.learner_ids) = Len(loc.learners)
        /\ Len(loc'.learner_ids) = Len(loc'.learners)
        /\ (pc = "learner" \/ InAttempt) =>
              /\ loc.batches # <<>>
              /\ Len(loc.learner_ids) = loc.i
        /\ InAttempt =>
              /\ loc.learner_ids[loc.i] = loc.lrn_id
              /\ loc.learners[loc.i] = loc.learner
        /\ attempts' # attempts =>
              /\ attempts' = Append(attempts, <<loc.sim_id, loc.learner_ids[Len(loc.learner_ids)]>>)
              /\ loc'.lrn_id = loc.learner_ids[Len(loc.learner_ids)]
        /\ (out' # out \/ failed' # failed) =>
              /\ loc.learner_ids # <<>>
              /\ loc'.learner_ids = SubSeq(loc.learner_ids, 1, Len(loc.learner_ids) - 1)
              /\ loc'.learners = SubSeq(loc.learners, 1, Len(loc.learners) - 1)
        /\ (out' = out /\ failed' = failed /\ (pc = "learner" \/ InAttempt)) =>
              /\ loc'.learner_ids = loc.learner_ids
              /\ loc'.learners = loc.learners
        /\ ((pc = "learner" \/ InAttempt) /\ pc' \in {"simulation", "source", "done"}) =>
              /\ loc'.learner_ids = <<>>
              /\ loc'.learners = <<>>
        /\ (pc' = "done" /\ ~OuterFailure') =>
              \A k \in DOMAIN unfinished :
                  HasBatches(unfinished[k]) =>
                      Count(attempts', Pair(unfinished[k]))
                         = Count([j \in DOMAIN unfinished |-> Pair(unfinished[j])],
                                 Pair(unfinished[k])) ]_vars
C26_Witness ==
    /\ pc = "learner"
    /\ Len(loc.learner_ids) = 1 /\ Len(loc.learners) = 1
    /\ Len(tasks) = 3
    /\ Len(attempts) = 2 /\ Len(failed) = 1 /\ Len(out) = 1
    /\ attempts[1] = attempts[2]

\* C27: whenever choose returns, the action is one of the supplied actions and
\* the probability is the one predict gave for the action at that position:
\* the pair is an element of zip(actions, predict(...)), not rescaled, and it
\* is what _process_batch keeps for observe and learn; choose samples only
\* when the probabilities passed the sum check.
C27_ChosenPair ==
    \A k \in DOMAIN calls :
        (calls[k].op = "choose" /\ calls[k].ok) =>
            LET c == calls[k]
            IN  /\ \E j \in DOMAIN c.actions :
                      /\ j \in DOMAIN c.predicted
                      /\ c.returned = <<c.actions[j], c.predicted[j]>>
                /\ c.returned \in Range(zip(c.actions, c.predicted))
                /\ 10000 * Abs(SumSeq(c.predicted) - Scale) <= Scale
                /\ k \in DOMAIN pb.probs =>
                      /\ pb.actions[k] = c.returned[1]
                      /\ pb.probs[k] = c.returned[2]
C27_Witness ==
    /\ pc = "observe"
    /\ Len(calls) = 2
    /\ calls[2].ok
    /\ Len(calls[2].actions) = 3
    /\ SumSeq(calls[2].predicted) = Scale + 9
    /\ calls[2].returned = <<calls[2].actions[3], calls[2].predicted[3]>>
    /\ pb.probs[2] = Part + 9

\* C28: within one Transactions.filter call over the output of Tasks the
\* transform of a simulation is applied to the loaded source, and its batches
\* computed, once per distinct sim_id, and the learners of all tasks of that
\* sim_id are pending on that one simulation: the tasks of a sim_id form one
\* simulation group.
C28_OncePerSimulation ==
    /\ \A i, j \in DOMAIN created : i # j => created[i][1] # created[j][1]
    /\ pc \in {"learner", "choose", "observe", "learn", "return"} =>
          \A k \in DOMAIN unfinished :
              (unfinished[k].sim_id = loc.sim_id
               /\ Pair(unfinished[k]) \notin Range(attempts))
                  => unfinished[k].lrn_id \in Range(loc.learner_ids)

\* C29: in the pipeline Tasks -> Unfinished -> grouping -> Transactions a source
\* is read only if one of its tasks survives Unfinished. For a source whose
\* (sim_id, lrn_id) pairs are all recorded, or whose simulations are all marked
\* zero-batch, read() is not called, no transform is applied and no learner is
\* initialised or trained; Unfinished and both grouping filters hand on the
\* tasks as they are (src_id, sim_id, lrn_id, simulation and learner).
Survives(t) ==
    /\ Pair(t) \notin self_restored.batches
    /\ ~\E r \in self_restored.simulations :
           r.simulation_id = t.sim_id /\ r.batch_count = 0
Survivors == {t \in Range(tasks) : Survives(t)}
SourceRead(t) == BenchmarkTaskSimulation_source(t.simulation)._source
C29_OnlyUnfinishedSources ==
    /\ \A k \in DOMAIN reads : \E t \in Survivors : SourceRead(t) = reads[k]
    /\ \A k \in DOMAIN created :
          \E t \in Survivors :
              t.sim_id = created[k][1] /\ t.simulation.wrapper = created[k][2]
    /\ \A k \in DOMAIN attempts : \E t \in Survivors : Pair(t) = attempts[k]
    /\ \A t \in Range(tasks) \ Survivors :
          lstate[Own(t)] = [inits |-> 0, learns |-> 0]
    /\ \A t \in Range(tasks) :
          (\A u \in Range(tasks) : SourceRead(u) = SourceRead(t) => ~Survives(u))
             => /\ SourceRead(t) \notin Range(reads)
                /\ t.sim_id \notin {created[k][1] : k \in DOMAIN created}
    /\ pc \notin {"start", "tasks"} =>
          \A k \in DOMAIN unfinished : unfinished[k] \in Range(tasks)
    /\ \A g \in DOMAIN task_groups :
          \A k \in DOMAIN task_groups[g] : task_groups[g][k] \in Range(unfinished)
C29_Witness ==
    /\ runs = 2
    /\ pc = "done"
    /\ Cardinality({SourceRead(t) : t \in Range(tasks)}) = 2
    /\ Len(reads) = 1
    /\ out # <<>>
    /\ self_restored.batches # {}
    /\ \E t \in Range(tasks) : SourceRead(t) \notin Range(reads)

====
